---- MODULE Spec2Model ----
(***************************************************************************)
(* Worktree-creation scripts of the claude-skills repository:              *)
(*   docimp  git-workflow/scripts/create_worktree.py                       *)
(*   wtd     writethedocs-git-workflow/scripts/create_worktree.py          *)
(* One run of main() is modelled as a state machine over the git           *)
(* repository it shells out to.  The repository is abstracted to what the  *)
(* scripts read and change: the source branch and its upstream, the        *)
(* source worktree's working tree, the shared stash list, the new branch   *)
(* and the new worktree.                                                   *)
(*                                                                         *)
(* Commits lie on one line of history and are numbered: the upstream       *)
(* tracking ref of the source branch is commit 0 and the local source      *)
(* branch is `ahead` commits in front of it, so the history of commit c    *)
(* is 0..c and the unpushed commits are 1..ahead.                          *)
(***************************************************************************)
EXTENDS Integers, Sequences, FiniteSets, TLC

\* ---------------------------------------------------------------- bounds
MaxUnpushed == 1        \* most commits the source branch is ahead of upstream
MaxReprompts == 2       \* most rejected inputs at the inclusion prompt
MaxForeignStash == 1    \* most stash entries present before the run

\* ------------------------------------------------------------- vocabulary
Scripts == {"docimp", "wtd"}
Modes == {"none", "uncommitted", "unpushed", "all"}
SourceBranchArgs == {"feature", "origin/feature", "ghost"}
TrackedEdits == {"tracked_edit"}
UntrackedFiles == {"untracked_file"}

VARIABLES
    \* command line
    script, exclude_changes, include_changes, source_branch,
    atStart,            \* the repository as it was when the run began
    \* git repository and file system
    srcCheckedOut,      \* the source branch is checked out in a worktree
    hasUpstream,        \* the source branch has an upstream tracking ref
    ahead,              \* commits of the source branch not in its upstream
    srcTree,            \* uncommitted paths in the source worktree
    stashList,          \* the repository's stash, stash@{0} first
    newBranchExists,    \* refs/heads/<branch_name> exists
    newBranch,          \* the commit it points at, when it exists
    wtExists,           \* the new worktree path exists on disk
    newTree,            \* uncommitted paths in the new worktree
    cwdBranch,          \* branch checked out in the directory the run started in
    \* locals of main()
    pc, include_changes_choice, branch_type, source_worktree_path,
    changes_info, options, default_choice, choice, reprompts, prompted,
    stashed, exit_code, errors, warnings, ops,
    queries,            \* how the inspector's two git queries ended
    include_local,      \* brotein-buddy: include_local of main()
    post,               \* how the post-setup steps went
    \* the linker
    fsBefore,           \* the file system as the Linker found it
    links,              \* the link paths inside the new worktree
    created_symlinks,   \* link names the Linker reports as created
    linker_runs         \* times the Linker ran on the new worktree

argVars == <<script, exclude_changes, include_changes, source_branch, atStart>>
repoVars == <<srcCheckedOut, hasUpstream, ahead, srcTree, stashList,
              newBranchExists, newBranch, wtExists, newTree, cwdBranch>>
promptVars == <<options, default_choice, choice, reprompts, prompted>>
localVars == <<include_changes_choice, branch_type, source_worktree_path,
               changes_info, stashed>>
outVars == <<exit_code, errors, warnings, ops>>
postVars == <<post>>
queryVars == <<queries>>
bbVars == <<include_local>>
linkVars == <<fsBefore, links, created_symlinks, linker_runs>>
vars == <<argVars, repoVars, promptVars, localVars, outVars, linkVars, postVars,
          queryVars, bbVars, pc>>

\* ------------------------------------------------------------ git, abstractly
SourceHead == ahead
History(c) == 0..c
UnpushedCommits == IF hasUpstream THEN 1..ahead ELSE {}

\* A git command that was issued, with its outcome.
Op(cmd, arg, ok) == [cmd |-> cmd, arg |-> arg, ok |-> ok]
Issued(cmd) == \E i \in 1..Len(ops) : ops[i].cmd = cmd
Succeeded(cmd) == \E i \in 1..Len(ops) : ops[i].cmd = cmd /\ ops[i].ok

\* exit_with_error(message): print the error, sys.exit(1).
ExitWithError(message) ==
    /\ pc' = "exit"
    /\ exit_code' = 1
    /\ errors' = errors \cup {message}

Running == UNCHANGED <<exit_code, errors>>

\* An exception nobody catches leaves main(): the interpreter prints the
\* traceback and the process exits with status 1.
Uncaught(exception) ==
    /\ pc' = "exit"
    /\ exit_code' = 1
    /\ errors' = errors \cup {exception}

\* ---------------------------------------------------------------- the linker
MaxMissing == 1         \* most shared targets that are absent
MaxOccupied == 1        \* most link paths already taken when the Linker is run alone

\* WORKTREE_SYMLINKS of the wtd script.
WtdSymlinks ==
    << [link_name |-> ".claude",   target |-> "../.shared/.claude",   required |-> TRUE],
       [link_name |-> ".envrc",    target |-> "../.shared/.envrc",    required |-> FALSE],
       [link_name |-> ".planning", target |-> "../.shared/.planning", required |-> TRUE],
       [link_name |-> ".scratch",  target |-> "../.shared/.scratch",  required |-> TRUE],
       [link_name |-> ".vscode",   target |-> "../.shared/.vscode",   required |-> TRUE],
       [link_name |-> "CLAUDE.md", target |-> "../.shared/CLAUDE.md", required |-> TRUE] >>

\* The create_symlink calls of the docimp script before it makes .claude/.  It
\* has no notion of an optional link and never looks at the target; required is
\* not read for it.
DocimpRootSymlinks ==
    << [link_name |-> "CLAUDE.md", target |-> "../../.docimp-shared/CLAUDE.md",
        required |-> TRUE],
       [link_name |-> "WARP.md", target |-> "../../.docimp-shared/CLAUDE.md",
        required |-> TRUE],
       [link_name |-> "CLAUDE_CONTEXT.md", target |-> "../../.docimp-shared/CLAUDE_CONTEXT.md",
        required |-> TRUE],
       [link_name |-> ".planning", target |-> "../../.docimp-shared/.planning",
        required |-> TRUE],
       [link_name |-> ".scratch", target |-> "../../.docimp-shared/.scratch",
        required |-> TRUE] >>

\* The create_symlink calls inside .claude/.
DocimpClaudeSymlinks ==
    << [link_name |-> ".claude/skills", target |-> "../../../.docimp-shared/.claude/skills",
        required |-> TRUE],
       [link_name |-> ".claude/settings.local.json",
        target |-> "../../../.docimp-shared/.claude/settings.local.json",
        required |-> TRUE] >>

DocimpSymlinks == DocimpRootSymlinks \o DocimpClaudeSymlinks

SymlinkTable(sc) == IF sc = "wtd" THEN WtdSymlinks ELSE DocimpSymlinks
Range(f) == {f[i] : i \in DOMAIN f}
LinkNames == {sp.link_name : sp \in Range(WtdSymlinks) \cup Range(DocimpSymlinks)}
Targets(sc) == {sp.target : sp \in Range(SymlinkTable(sc))}

\* What is at a path: nothing, a regular file, a directory, or a symlink with
\* its stored target.
Absent == [kind |-> "absent", readlink |-> ""]
Symlink(target) == [kind |-> "symlink", readlink |-> target]
RegularFile == [kind |-> "file", readlink |-> ""]
Directory == [kind |-> "dir", readlink |-> ""]
PathKinds == { Absent, RegularFile, Directory }
NoLinks == [l \in LinkNames |-> Absent]
\* A file system: the shared targets that are absent, what is at each path of
\* the new worktree, and the link paths where symlink_to raises OSError.
CleanFs == [missing |-> {}, paths |-> NoLinks, unwritable |-> {}]

\* Path.exists() follows symlinks; Path.is_symlink() does not.
PathExists(p, missing) ==
    \/ p.kind \in {"file", "dir"}
    \/ p.kind = "symlink" /\ p.readlink \notin missing /\ p.readlink # "nowhere"
IsSymlink(p) == p.kind = "symlink"

\* Mutant: a link path that is taken is an error even when it is the right symlink.
CreateSymlinkNoSkip(target, p, missing, writable) ==
    IF PathExists(p, missing) \/ IsSymlink(p) THEN "error"
    ELSE IF writable THEN "created" ELSE "error"

\* Mutant: whatever is at the link path is replaced by the symlink.
CreateSymlinkOverwrite(target, p, missing, writable) ==
    IF IsSymlink(p) /\ p.readlink = target THEN "exists" ELSE "created"

\* create_symlink: "created", "exists" (already the right symlink) or "error"
\* (exit_with_error: the path is taken, or symlink_to raised OSError).
CreateSymlink(target, p, missing, writable) ==
    IF PathExists(p, missing) \/ IsSymlink(p)
    THEN IF IsSymlink(p) /\ p.readlink = target THEN "exists" ELSE "error"
    ELSE IF writable THEN "created" ELSE "error"

\* Mutant: a missing required target is skipped like an optional one.
ValidateSymlinkTargetSkipAll(spec, missing) ==
    IF spec.target \notin missing THEN "valid" ELSE "skip"

\* Mutant: a missing target aborts whether or not the link is required.
ValidateSymlinkTargetAbortAll(spec, missing) ==
    IF spec.target \notin missing THEN "valid" ELSE "abort"

\* validate_symlink_target: "valid", "skip" (optional, warned) or "abort".
ValidateSymlinkTarget(spec, missing) ==
    IF spec.target \notin missing THEN "valid"
    ELSE IF spec.required THEN "abort"
    ELSE "skip"

\* The pre-validation loop of create_symlinks (wtd): the specs kept, the
\* optional specs skipped so far, and whether a required target was missing.
RECURSIVE ValidateAll(_, _)
ValidateAll(specs, missing) ==
    IF specs = <<>> THEN [abort |-> FALSE, valid |-> <<>>, skipped |-> <<>>]
    ELSE LET v == ValidateSymlinkTarget(Head(specs), missing)
             rest == ValidateAll(Tail(specs), missing)
         IN  IF v = "abort" THEN [abort |-> TRUE, valid |-> <<>>, skipped |-> <<>>]
             ELSE IF v = "skip"
                  THEN [rest EXCEPT !.skipped = <<Head(specs).link_name>> \o @]
                  ELSE [rest EXCEPT !.valid = <<Head(specs)>> \o @]

\* The creation loop: stops at the first create_symlink that exits.
RECURSIVE CreateAll(_, _, _, _)
CreateAll(specs, paths, missing, unwritable) ==
    IF specs = <<>> THEN [abort |-> FALSE, paths |-> paths]
    ELSE LET sp == Head(specs)
             r == CreateSymlink(sp.target, paths[sp.link_name], missing,
                                sp.link_name \notin unwritable)
         IN  IF r = "error" THEN [abort |-> TRUE, paths |-> paths]
             ELSE CreateAll(Tail(specs),
                            IF r = "created"
                            THEN [paths EXCEPT ![sp.link_name] = Symlink(sp.target)]
                            ELSE paths,
                            missing, unwritable)

\* claude_dir.mkdir(exist_ok=True) of the docimp script: FileExistsError unless
\* the path is free or a directory.  No file system here has a symlink at
\* .claude for docimp, so is_dir() is the kind of the path.
MakeClaudeDir(paths) ==
    IF paths[".claude"] = Absent
    THEN [raised |-> FALSE, paths |-> [paths EXCEPT ![".claude"] = Directory]]
    ELSE [raised |-> paths[".claude"].kind # "dir", paths |-> paths]

\* create_symlinks of the wtd script: validate every target, then link.
WtdLinker(fs) ==
    LET v == ValidateAll(WtdSymlinks, fs.missing)
        c == CreateAll(v.valid, fs.paths, fs.missing, fs.unwritable)
    IN  IF v.abort
        THEN [abort |-> TRUE, crash |-> FALSE, paths |-> fs.paths, created |-> <<>>,
              skipped |-> v.skipped]
        ELSE [abort |-> c.abort, crash |-> FALSE, paths |-> c.paths,
              created |-> IF c.abort THEN <<>>
                          ELSE [i \in 1..Len(v.valid) |-> v.valid[i].link_name],
              skipped |-> v.skipped]

\* The body of the docimp script's "try:": five links, .claude/, two links.
DocimpLinker(fs) ==
    LET c1 == CreateAll(DocimpRootSymlinks, fs.paths, fs.missing, fs.unwritable)
        d  == MakeClaudeDir(c1.paths)
        c2 == CreateAll(DocimpClaudeSymlinks, d.paths, fs.missing, fs.unwritable)
        r  == [abort |-> FALSE, crash |-> FALSE, paths |-> c1.paths, created |-> <<>>,
               skipped |-> <<>>]
    IN  IF c1.abort THEN [r EXCEPT !.abort = TRUE]
        ELSE IF d.raised THEN [r EXCEPT !.crash = TRUE]
        ELSE IF c2.abort THEN [r EXCEPT !.abort = TRUE, !.paths = c2.paths]
        ELSE [r EXCEPT !.paths = c2.paths,
                       !.created = [i \in 1..Len(DocimpSymlinks) |->
                                       DocimpSymlinks[i].link_name]]

\* The Linker of each script on a file system: abort is SystemExit out of it,
\* crash an exception that is no SystemExit.
RunLinker(sc, fs) == IF sc = "wtd" THEN WtdLinker(fs) ELSE DocimpLinker(fs)

\* What may already be at a link path of a worktree that was just checked out.
Occupants(sp) ==
    { RegularFile, Directory, Symlink(sp.target), Symlink("elsewhere"),
      Symlink("nowhere") }

\* File systems the Linker may find in a run of main(): some shared targets
\* absent (wtd, the only script that looks), the first link path already taken
\* or not writable, .claude taken by a file or a directory (docimp).
LinkerScenarios(sc) ==
    { [CleanFs EXCEPT !.missing = m] :
        m \in {x \in SUBSET Targets(sc) :
                 Cardinality(x) <= (IF sc = "wtd" THEN MaxMissing ELSE 0)} }
    \cup
    { [CleanFs EXCEPT !.paths[SymlinkTable(sc)[1].link_name] = k] :
        k \in Occupants(SymlinkTable(sc)[1]) }
    \cup
    { [CleanFs EXCEPT !.unwritable = {SymlinkTable(sc)[1].link_name}] }
    \cup
    (IF sc = "docimp"
     THEN { [CleanFs EXCEPT !.paths[".claude"] = k] : k \in {RegularFile, Directory} }
     ELSE {})

\* The exit status of "git worktree list --porcelain" and of "git status
\* --porcelain": "ok", "failed" (non-zero), or "" when the query was not run.
NoQueries == [list |-> "", status |-> ""]

NoChanges == [is_none |-> TRUE, uncommitted |-> FALSE, unpushed |-> FALSE,
              unpushed_count |-> 0]

Init ==
    /\ script \in Scripts
    /\ exclude_changes \in BOOLEAN
    /\ include_changes \in Modes \cup {"None"}
    /\ source_branch \in SourceBranchArgs
    /\ srcCheckedOut \in BOOLEAN
    /\ hasUpstream \in BOOLEAN
    /\ ahead \in IF hasUpstream THEN 0..MaxUnpushed ELSE {0}
    /\ srcTree \in SUBSET (TrackedEdits \cup UntrackedFiles)
    /\ \E n \in 0..MaxForeignStash :
          stashList = [i \in 1..n |-> [msg |-> "foreign", changes |-> {"foreign_edit"}]]
    /\ newBranchExists \in BOOLEAN
    /\ newBranch = 0
    /\ wtExists \in BOOLEAN
    /\ newTree = {}
    /\ atStart = [srcTree |-> srcTree, stashList |-> stashList,
                  wtExists |-> wtExists, newBranchExists |-> newBranchExists]
    /\ cwdBranch = "main"
    /\ pc = IF script = "docimp" THEN "parse_args" ELSE "validate_repo"
    /\ include_changes_choice = "None"
    /\ branch_type = ""
    /\ source_worktree_path = "None"
    /\ changes_info = NoChanges
    /\ options = <<>>
    /\ default_choice = <<>>
    /\ choice = <<>>
    /\ reprompts = 0
    /\ prompted = FALSE
    /\ stashed = FALSE
    /\ exit_code = -1
    /\ errors = {}
    /\ warnings = {}
    /\ ops = <<>>
    /\ queries = NoQueries
    /\ post = [done |-> <<>>, warned |-> {}, failure |-> "", at |-> ""]
    /\ fsBefore = CleanFs
    /\ links = NoLinks
    /\ created_symlinks = <<>>
    /\ linker_runs = 0
    /\ include_local = FALSE

\* ------------------------------------------------------- the inclusion prompt
\* str(option_num): the menu keys are decimal numerals.
Digits == <<"1", "2", "3", "4", "5", "6", "7", "8", "9">>
Str(n) == <<Digits[n]>>

Whitespace == {" ", "\t"}
RECURSIVE LStrip(_)
LStrip(s) == IF s # <<>> /\ Head(s) \in Whitespace THEN LStrip(Tail(s)) ELSE s
RECURSIVE RStrip(_)
RStrip(s) == IF s # <<>> /\ s[Len(s)] \in Whitespace
             THEN RStrip(SubSeq(s, 1, Len(s) - 1)) ELSE s
\* str.strip() of a line of input, a sequence of characters.
Strip(s) == RStrip(LStrip(s))

\* option_num after the "uncommitted" and "unpushed" entries were offered.
OptionNumAfter(ci) ==
    LET n1 == 1 + 1
        n2 == IF ci.uncommitted THEN n1 + 1 ELSE n1
        n3 == IF ci.unpushed THEN n2 + 1 ELSE n2
    IN  <<n1, n2, n3>>

\* Mutant: every mode is offered whatever the ChangeSet says.
BuildOptionsOfferAll(ci) ==
    (Str(1) :> "none") @@ (Str(2) :> "uncommitted") @@ (Str(3) :> "unpushed")
        @@ (Str(4) :> "all")

\* options: the menu of prompt_include_changes, key -> mode.
BuildOptions(ci) ==
    LET n  == OptionNumAfter(ci)
        o1 == (Str(1) :> "none")
        o2 == IF ci.uncommitted THEN (Str(n[1]) :> "uncommitted") @@ o1 ELSE o1
        o3 == IF ci.unpushed THEN (Str(n[2]) :> "unpushed") @@ o2 ELSE o2
    IN  IF ci.uncommitted /\ ci.unpushed THEN (Str(n[3]) :> "all") @@ o3 ELSE o3

\* Mutant: the default is always the first entry.
DefaultChoiceFirst(ci) == Str(1)

\* default_choice: the key chosen by empty input.
DefaultChoice(ci) ==
    IF ci.uncommitted /\ ci.unpushed THEN Str(OptionNumAfter(ci)[3])
    ELSE IF ci.uncommitted THEN Str(2)
    ELSE IF ci.unpushed THEN Str(2)
    ELSE Str(1)

\* Mutant: a line that is no key of the menu is taken as the default.
PromptStepCoerce(opts, dflt, line) ==
    LET c == Strip(line)
    IN  IF c \in DOMAIN opts THEN opts[c] ELSE opts[dflt]

\* One pass of the "while True" loop: the mode returned for a line of input,
\* or "reprompt" when the line is rejected.
PromptStep(opts, dflt, line) ==
    LET c == Strip(line)
    IN  IF c = <<>> THEN opts[dflt]
        ELSE IF c \in DOMAIN opts THEN opts[c]
        ELSE "reprompt"

\* Lines the user may type.
InputLines == { <<>>, <<" ">>, <<"0">>, <<"1">>, <<"2">>, <<"3">>, <<"4">>,
                <<"5">>, <<" ", "2", " ">>, <<"0", "2">>, <<"2", "2">>,
                <<"a", "l", "l">>, <<"-", "1">> }

\* ----------------------------------------------------------- the inspector
LocalBranchExists(name) == name = "feature"
RemoteBranchExists(name) == name = "origin/feature" /\ hasUpstream

\* validate_source_branch: 'local', 'remote' or '' (invalid).
BranchType(name) ==
    IF LocalBranchExists(name) THEN "local"
    ELSE IF RemoteBranchExists(name) THEN "remote"
    ELSE ""

\* find_worktree_for_branch; list_ok is "git worktree list" exiting 0.
FindWorktreeForBranch(name, list_ok) ==
    IF ~list_ok THEN "None"
    ELSE IF name = "feature" /\ srcCheckedOut THEN "src_wt"
    ELSE "None"

\* check_local_changes; status_ok is "git status --porcelain" exiting 0.
\* "rev-parse @{u}" exits non-zero exactly when there is no upstream.
CheckLocalChanges(status_ok) ==
    [is_none |-> FALSE,
     uncommitted |-> status_ok /\ srcTree # {},
     unpushed |-> hasUpstream /\ ahead > 0,
     unpushed_count |-> IF hasUpstream /\ ahead > 0 THEN ahead ELSE 0]

\* ------------------------------------------------------------ the resolver
\* Mutant: --exclude-changes is not looked at.
PreSelectedIgnoreExclude(excl, incl) ==
    IF incl # "None" THEN incl ELSE "None"

\* --exclude-changes / --include-changes to include_changes_choice.
PreSelected(excl, incl) ==
    IF excl THEN "none" ELSE IF incl # "None" THEN incl ELSE "None"

\* Mutant: a source worktree without changes does not force 'none'.
ResolveChoiceKeepPre(pre, path, ci) ==
    IF path # "None" THEN pre ELSE "none"

\* Mutant: a pre-selected mode is cut down to the changes that exist.
ResolveChoiceValidated(pre, path, ci) ==
    IF path # "None"
    THEN IF ci.uncommitted \/ ci.unpushed
         THEN IF pre \in {"uncommitted", "all"} /\ ~ci.uncommitted THEN "unpushed"
              ELSE IF pre \in {"unpushed", "all"} /\ ~ci.unpushed THEN "uncommitted"
              ELSE pre
         ELSE "none"
    ELSE "none"

\* Mutant: a pre-selected mode is kept when no source worktree was found.
ResolveChoiceWithoutWorktree(pre, path, ci) ==
    IF path # "None"
    THEN IF ci.uncommitted \/ ci.unpushed THEN pre ELSE "none"
    ELSE IF pre = "None" THEN "none" ELSE pre

\* The choice main() settles on before any prompt; "None" when
\* prompt_include_changes has to be called.
ResolveChoice(pre, path, ci) ==
    IF path # "None"
    THEN IF ci.uncommitted \/ ci.unpushed THEN pre ELSE "none"
    ELSE "none"

\* ------------------------------------------------------------------ main()
ParseArgs ==
    /\ pc = "parse_args"
    /\ IF exclude_changes /\ include_changes # "None"
       THEN /\ ExitWithError("Cannot specify both --exclude-changes and --include-changes")
            /\ UNCHANGED include_changes_choice
       ELSE /\ include_changes_choice' = PreSelected(exclude_changes, include_changes)
            /\ pc' = IF script = "docimp" THEN "validate_repo" ELSE "validate_source"
            /\ Running
    /\ UNCHANGED <<argVars, queryVars, bbVars, postVars, linkVars, repoVars, promptVars, branch_type,
                   source_worktree_path, changes_info, stashed, warnings, ops>>

\* validate_docimp_repo / validate_wtd_repo: the directory layout is right or not.
ValidateRepo ==
    /\ pc = "validate_repo"
    /\ \E layout_ok \in BOOLEAN :
          IF layout_ok
          THEN /\ pc' = IF script = "docimp" THEN "validate_source" ELSE "parse_args"
               /\ Running
          ELSE ExitWithError("Not in the repository root")
    /\ UNCHANGED <<argVars, queryVars, bbVars, postVars, linkVars, repoVars, promptVars, localVars, warnings, ops>>

ValidateSourceBranch ==
    /\ pc = "validate_source"
    /\ branch_type' = BranchType(source_branch)
    /\ IF BranchType(source_branch) = ""
       THEN ExitWithError("Source branch does not exist")
       ELSE pc' = "inspect" /\ Running
    /\ UNCHANGED <<argVars, queryVars, bbVars, postVars, linkVars, repoVars, promptVars, include_changes_choice,
                   source_worktree_path, changes_info, stashed, warnings, ops>>

\* Find the source worktree and, when there is one, compute its ChangeSet.
InspectSource ==
    /\ pc = "inspect"
    /\ \E list_ok \in BOOLEAN, status_ok \in BOOLEAN :
          LET path == IF branch_type = "local"
                      THEN FindWorktreeForBranch(source_branch, list_ok)
                      ELSE "None"
              outcome(ok) == IF ok THEN "ok" ELSE "failed"
          IN  /\ source_worktree_path' = path
              /\ changes_info' = IF path # "None" THEN CheckLocalChanges(status_ok)
                                 ELSE NoChanges
              /\ queries' = [list |-> IF branch_type = "local" THEN outcome(list_ok)
                                      ELSE "",
                             status |-> IF path # "None" THEN outcome(status_ok)
                                        ELSE ""]
    /\ pc' = "resolve"
    /\ UNCHANGED <<argVars, bbVars, postVars, linkVars, repoVars, promptVars,
                   include_changes_choice, branch_type, stashed, outVars>>

\* Decide what to include: a pre-selected mode, the prompt, or 'none'.
Resolve ==
    /\ pc = "resolve"
    /\ LET r == ResolveChoice(include_changes_choice, source_worktree_path, changes_info)
       IN  IF r = "None"
           THEN /\ pc' = "prompt_menu"
                /\ UNCHANGED include_changes_choice
           ELSE /\ include_changes_choice' = r
                /\ pc' = IF source_worktree_path # "None" THEN "collision"
                         ELSE IF script = "docimp" /\ branch_type = "local" THEN "checkout"
                         ELSE IF script = "docimp" /\ branch_type = "remote" THEN "fetch"
                         ELSE "collision"
    /\ UNCHANGED <<argVars, queryVars, bbVars, postVars, linkVars, repoVars, promptVars, branch_type,
                   source_worktree_path, changes_info, stashed, outVars>>

\* prompt_include_changes, up to the input loop: show the changes, build the menu.
BuildMenu ==
    /\ pc = "prompt_menu"
    /\ prompted' = TRUE
    /\ options' = BuildOptions(changes_info)
    /\ default_choice' = DefaultChoice(changes_info)
    /\ pc' = "prompt"
    /\ UNCHANGED <<argVars, queryVars, bbVars, postVars, linkVars, repoVars, choice, reprompts, localVars, outVars>>

\* The input loop of prompt_include_changes: read one line; return a mode or
\* ask again.
PromptInput ==
    /\ pc = "prompt"
    /\ \E line \in InputLines :
          LET r == PromptStep(options, default_choice, line)
          IN  /\ choice' = Strip(line)
              /\ IF r = "reprompt"
                 THEN /\ reprompts < MaxReprompts
                      /\ reprompts' = reprompts + 1
                      /\ UNCHANGED <<pc, include_changes_choice>>
                 ELSE /\ include_changes_choice' = r
                      /\ pc' = "collision"
                      /\ UNCHANGED reprompts
    /\ UNCHANGED <<argVars, queryVars, bbVars, postVars, linkVars, repoVars, options, default_choice, prompted, branch_type,
                   source_worktree_path, changes_info, stashed, outVars>>

\* Mutant: the checkout is run somewhere else and leaves the invoking
\* directory on its branch.
GitCheckoutElsewhere ==
    /\ pc = "checkout"
    /\ \E ok \in BOOLEAN :
          /\ ok => ~srcCheckedOut
          /\ ops' = Append(ops, Op("checkout", source_branch, ok))
          /\ IF ok
             THEN pc' = "pull" /\ Running
             ELSE ExitWithError("Git command failed")
    /\ UNCHANGED <<argVars, queryVars, bbVars, postVars, linkVars, repoVars,
                   promptVars, localVars, warnings>>

\* docimp only: no worktree was found for the local source branch.  git
\* checkout <source_branch> runs in the invoking directory; git refuses a
\* branch that is checked out in another worktree.
GitCheckout ==
    /\ pc = "checkout"
    /\ \E ok \in BOOLEAN :
          /\ ok => ~srcCheckedOut
          /\ ops' = Append(ops, Op("checkout", source_branch, ok))
          /\ IF ok
             THEN /\ cwdBranch' = source_branch
                  /\ pc' = "pull"
                  /\ Running
             ELSE /\ ExitWithError("Git command failed")
                  /\ UNCHANGED cwdBranch
    /\ UNCHANGED <<argVars, queryVars, bbVars, postVars, linkVars, srcCheckedOut, hasUpstream, ahead, srcTree, stashList,
                   newBranchExists, newBranch, wtExists, newTree,
                   promptVars, localVars, warnings>>

GitPull ==
    /\ pc = "pull"
    /\ \E ok \in BOOLEAN :
          /\ ops' = Append(ops, Op("pull", "", ok))
          /\ IF ok THEN pc' = "collision" /\ Running ELSE ExitWithError("Git command failed")
    /\ UNCHANGED <<argVars, queryVars, bbVars, postVars, linkVars, repoVars, promptVars, localVars, warnings>>

\* docimp only: the source branch is a remote branch.
GitFetch ==
    /\ pc = "fetch"
    /\ \E ok \in BOOLEAN :
          /\ ops' = Append(ops, Op("fetch", "", ok))
          /\ IF ok THEN pc' = "collision" /\ Running ELSE ExitWithError("Git command failed")
    /\ UNCHANGED <<argVars, queryVars, bbVars, postVars, linkVars, repoVars, promptVars, localVars, warnings>>

\* Mutant: mode unpushed goes through the stash like uncommitted and all.
FirstStepStashAlways(mode) ==
    IF mode = "none" THEN "add_from_start" ELSE "stash_push"

\* Mutant: the Materializer is left out and the symlinks come first.
FirstStepLinkFirst(mode) == "linking"

\* The first Materializer step of each mode.
FirstStep(mode) ==
    IF mode = "none" THEN "add_from_start"
    ELSE IF mode = "unpushed" THEN "branch"
    ELSE IF mode \in {"uncommitted", "all"} THEN "stash_push"
    ELSE "add_from_start"

\* Mutant: only the worktree path is looked at.
CollisionErrorPathOnly(path_exists, branch_exists) ==
    IF path_exists THEN "Worktree already exists" ELSE ""

\* Mutant: the branch name is looked at before the worktree path.
CollisionErrorBranchFirst(path_exists, branch_exists) ==
    IF branch_exists THEN "Branch already exists"
    ELSE IF path_exists THEN "Worktree already exists"
    ELSE ""

\* The two checks before the worktree is created: worktree_path.exists(), then
\* "git show-ref --verify --quiet refs/heads/<branch>" exiting 0.  The error
\* message, "" when there is no collision.
CollisionError(path_exists, branch_exists) ==
    IF path_exists THEN "Worktree already exists"
    ELSE IF branch_exists THEN "Branch already exists"
    ELSE ""

\* The worktree path or the branch name is already taken: exit 1.
CollisionCheck ==
    /\ pc = "collision"
    /\ IF CollisionError(wtExists, newBranchExists) # ""
       THEN ExitWithError(CollisionError(wtExists, newBranchExists))
       ELSE pc' = FirstStep(include_changes_choice) /\ Running
    /\ UNCHANGED <<argVars, queryVars, bbVars, postVars, linkVars, repoVars, promptVars, localVars, warnings, ops>>

\* ---------------------------------------------------------- the materializer
UpstreamBranch == "origin/feature"
CommitOf(ref) == IF ref = "feature" THEN SourceHead ELSE 0

\* Mutant: mode none always branches from the source branch.
StartPointSourceBranch(mode, path, ci) == source_branch

\* Start point of "git worktree add <path> -b <branch> <start>".
StartPoint(mode, path, ci) ==
    IF mode = "none" /\ path # "None" /\ ~ci.is_none /\ ci.unpushed
    THEN IF hasUpstream THEN UpstreamBranch ELSE source_branch
    ELSE source_branch

\* git worktree add <path> -b <branch> <start> (mode none, and the fallback).
WorktreeAddNewBranch ==
    /\ pc = "add_from_start"
    /\ LET start == StartPoint(include_changes_choice, source_worktree_path, changes_info)
       IN  \E ok \in BOOLEAN :
              /\ ops' = Append(ops, Op("worktree_add", start, ok))
              /\ IF ok
                 THEN /\ newBranchExists' = TRUE
                      /\ newBranch' = CommitOf(start)
                      /\ wtExists' = TRUE
                      /\ newTree' = {}
                      /\ pc' = "linking"
                      /\ Running
                 ELSE /\ ExitWithError("Git command failed")
                      /\ UNCHANGED <<newBranchExists, newBranch, wtExists, newTree>>
    /\ UNCHANGED <<argVars, queryVars, bbVars, postVars, linkVars, srcCheckedOut, hasUpstream, ahead, srcTree, stashList,
                   cwdBranch, promptVars, localVars, warnings>>

\* Mutant: the stash push takes untracked files too (--include-untracked).
StashContentAll(tree) == tree

\* What "git stash push" saves: tracked changes only.
StashContent(tree) == tree \cap TrackedEdits

\* stashed: exit 0 and stdout without "No local changes".
Stashed(rc_ok, tree) == rc_ok /\ StashContent(tree) # {}

\* git stash push -m temp-for-<branch>, in the source worktree (check=False).
StashPush ==
    /\ pc = "stash_push"
    /\ \E ok \in BOOLEAN :
          /\ ops' = Append(ops, Op("stash_push", "", ok))
          /\ stashed' = Stashed(ok, srcTree)
          /\ IF Stashed(ok, srcTree)
             THEN /\ stashList' = <<[msg |-> "temp-for-branch",
                                     changes |-> StashContent(srcTree)]>> \o stashList
                  /\ srcTree' = srcTree \ StashContent(srcTree)
             ELSE UNCHANGED <<stashList, srcTree>>
    /\ pc' = "branch"
    /\ UNCHANGED <<argVars, queryVars, bbVars, postVars, linkVars, srcCheckedOut, hasUpstream, ahead, newBranchExists,
                   newBranch, wtExists, newTree, cwdBranch, promptVars,
                   include_changes_choice, branch_type, source_worktree_path,
                   changes_info, exit_code, errors, warnings>>

\* git branch <branch>, in the source worktree: the branch starts at its HEAD.
CreateBranch ==
    /\ pc = "branch"
    /\ \E ok \in BOOLEAN :
          /\ ops' = Append(ops, Op("branch", "", ok))
          /\ IF ok
             THEN /\ newBranchExists' = TRUE
                  /\ newBranch' = SourceHead
                  /\ pc' = "worktree_add"
                  /\ Running
             ELSE /\ ExitWithError("Git command failed")
                  /\ UNCHANGED <<newBranchExists, newBranch>>
    /\ UNCHANGED <<argVars, queryVars, bbVars, postVars, linkVars, srcCheckedOut, hasUpstream, ahead, srcTree, stashList,
                   wtExists, newTree, cwdBranch, promptVars, localVars, warnings>>

\* Mutant: the stash is applied whether or not the push stashed anything.
AfterWorktreeAddApplyAlways(mode, st) ==
    IF mode \in {"uncommitted", "all"} THEN "stash_apply" ELSE "linking"

\* After the worktree exists: apply the stash, or go on to the symlinks.
AfterWorktreeAdd(mode, st) ==
    IF mode \in {"uncommitted", "all"} /\ st THEN "stash_apply" ELSE "linking"

\* git worktree add <path> <branch>: check out the branch just created.
WorktreeAdd ==
    /\ pc = "worktree_add"
    /\ \E ok \in BOOLEAN :
          /\ ops' = Append(ops, Op("worktree_add", "branch", ok))
          /\ IF ok
             THEN /\ wtExists' = TRUE
                  /\ newTree' = {}
                  /\ pc' = AfterWorktreeAdd(include_changes_choice, stashed)
                  /\ Running
             ELSE /\ ExitWithError("Git command failed")
                  /\ UNCHANGED <<wtExists, newTree>>
    /\ UNCHANGED <<argVars, queryVars, bbVars, postVars, linkVars, srcCheckedOut, hasUpstream, ahead, srcTree, stashList,
                   newBranchExists, newBranch, cwdBranch, promptVars, localVars,
                   warnings>>

\* Mutant: the stash is dropped whether or not it applied.
AfterStashApplyDropAlways(applied) == "stash_drop"

\* Only a stash that applied is dropped; a failed apply is a warning.
AfterStashApply(applied) == IF applied THEN "stash_drop" ELSE "linking"

\* git stash apply stash@{0}, in the new worktree (check=False).
StashApply ==
    /\ pc = "stash_apply"
    /\ \E ok \in BOOLEAN :
          LET applied == ok /\ stashList # <<>>
          IN  /\ ops' = Append(ops, Op("stash_apply", "stash@{0}", applied))
              /\ IF applied
                 THEN /\ newTree' = newTree \cup Head(stashList).changes
                      /\ UNCHANGED warnings
                 ELSE /\ warnings' = warnings \cup {"Failed to apply stashed changes"}
                      /\ UNCHANGED newTree
              /\ pc' = AfterStashApply(applied)
    /\ UNCHANGED <<argVars, queryVars, bbVars, postVars, linkVars, srcCheckedOut, hasUpstream, ahead, srcTree, stashList,
                   newBranchExists, newBranch, wtExists, cwdBranch, promptVars,
                   localVars, exit_code, errors>>

\* git stash drop stash@{0}, in the source worktree (check=False).
StashDrop ==
    /\ pc = "stash_drop"
    /\ \E ok \in BOOLEAN :
          LET dropped == ok /\ stashList # <<>>
          IN  /\ ops' = Append(ops, Op("stash_drop", "stash@{0}", dropped))
              /\ stashList' = IF dropped THEN Tail(stashList) ELSE stashList
    /\ pc' = "linking"
    /\ UNCHANGED <<argVars, queryVars, bbVars, postVars, linkVars, srcCheckedOut, hasUpstream, ahead, srcTree,
                   newBranchExists, newBranch, wtExists, newTree, cwdBranch,
                   promptVars, localVars, exit_code, errors, warnings>>

\* ------------------------------------------------- linking, cleanup, the end
\* One run of the Linker on the new worktree as file system fs holds it, with
\* what main() does about its outcome: go on, clean up after SystemExit, or
\* let any other exception through.
RunLinkerOn(fs) ==
    LET r == RunLinker(script, fs)
    IN  /\ links' = r.paths
        /\ created_symlinks' = r.created
        /\ linker_runs' = linker_runs + 1
        /\ warnings' = IF r.skipped # <<>>
                       THEN warnings \cup {"Optional symlink target missing"}
                       ELSE warnings
        /\ IF r.abort
           THEN /\ errors' = errors \cup {"Symlink creation failed"}
                /\ pc' = "cleanup"
                /\ UNCHANGED exit_code
           ELSE IF r.crash
           THEN Uncaught("FileExistsError")
           ELSE /\ pc' = "post_setup"
                /\ Running

\* The "try:" block around the symlink creation.
Linking ==
    /\ pc = "linking"
    /\ \E fs \in LinkerScenarios(script) :
          /\ fsBefore' = fs
          /\ RunLinkerOn(fs)
    /\ UNCHANGED <<argVars, queryVars, bbVars, postVars, repoVars, promptVars, localVars, ops>>

\* How "git worktree remove --force" can end inside the cleanup handler: exit
\* 0, a non-zero exit (CalledProcessError), or subprocess.run failing to start
\* it (OSError).
RemovalOutcomes == {"ok", "nonzero", "oserror"}

\* What the handler does about it.  On a non-zero exit run_git calls
\* exit_with_error inside the handler; SystemExit is no Exception, so the inner
\* "except Exception" does not see it and its warnings are not printed.
CleanupHandler(removal) ==
    IF removal = "ok" THEN "removed"
    ELSE IF removal = "nonzero" THEN "SystemExit"
    ELSE "warning"

\* "except SystemExit:" git worktree remove --force, then re-raise.
Cleanup ==
    /\ pc = "cleanup"
    /\ \E removal \in RemovalOutcomes :
          /\ ops' = Append(ops, Op("worktree_remove", "--force", removal = "ok"))
          /\ IF CleanupHandler(removal) = "removed"
             THEN /\ wtExists' = FALSE
                  /\ newTree' = {}
                  /\ links' = NoLinks
                  /\ pc' = "exit"
                  /\ exit_code' = 1
                  /\ UNCHANGED <<errors, warnings>>
             ELSE IF CleanupHandler(removal) = "SystemExit"
             THEN /\ ExitWithError("Git command failed")
                  /\ UNCHANGED <<wtExists, newTree, links, warnings>>
             ELSE /\ warnings' = warnings \cup {"Please manually remove: git worktree remove"}
                  /\ pc' = "exit"
                  /\ exit_code' = 1
                  /\ UNCHANGED <<wtExists, newTree, links, errors>>
    /\ UNCHANGED <<argVars, queryVars, bbVars, postVars, srcCheckedOut, hasUpstream, ahead, srcTree, stashList,
                   newBranchExists, newBranch, cwdBranch, promptVars, localVars,
                   fsBefore, created_symlinks, linker_runs>>

\* ------------------------------------------------------------- post-setup
\* How a subprocess.run of a tool ends: exit 0, FileNotFoundError,
\* CalledProcessError, TimeoutExpired.
ToolOutcomes == {"ok", "missing", "nonzero", "timeout"}
\* A tool that an earlier command of the same run already started is there.
FoundToolOutcomes == ToolOutcomes \ {"missing"}

\* Each step ends "ok", with "warning", or with the exception that leaves it
\* ("SystemExit" for exit_with_error).

\* configure_husky_hooks (docimp): three git commands, then npx husky.
ConfigureHuskyHooks(git_config, npx_husky) ==
    IF git_config # "ok" THEN "warning"
    ELSE IF npx_husky # "ok" THEN "warning"
    ELSE "ok"

\* install_npm_dependencies (docimp): npm install, then npm run build.
InstallNpmDependencies(cli_exists, npm_install, npm_build) ==
    IF ~cli_exists THEN "warning"
    ELSE IF npm_install # "ok" THEN "warning"
    ELSE IF npm_build # "ok" THEN "warning"
    ELSE "ok"

\* setup_python_venv (docimp): every failure is raised as RuntimeError.
DocimpSetupPythonVenv(uv_python_install, uv_venv, python_version, uv_sync) ==
    IF uv_python_install # "ok" THEN "RuntimeError"
    ELSE IF uv_venv # "ok" THEN "RuntimeError"
    ELSE IF python_version = "timeout" THEN "RuntimeError"
    ELSE IF uv_sync # "ok" THEN "RuntimeError"
    ELSE "ok"

\* setup_node_version (docimp): nothing without .nvmrc; nvm check, nvm install.
SetupNodeVersion(nvmrc_exists, nvm_check, nvm_install) ==
    IF ~nvmrc_exists THEN "ok"
    ELSE IF nvm_check # "ok" THEN "warning"
    ELSE IF nvm_install # "ok" THEN "warning"
    ELSE "ok"

\* enable_direnv (docimp): nothing without .envrc; direnv allow.
EnableDirenv(envrc_exists, direnv_allow) ==
    IF ~envrc_exists THEN "ok"
    ELSE IF direnv_allow # "ok" THEN "warning"
    ELSE "ok"

\* "Check/install hooks" (docimp): install_hooks.py is run when the hooks are
\* missing and --install-hooks-if-missing was given or the user agrees.
InstallHooks(hooks_installed, wanted, script_exists, run) ==
    IF hooks_installed \/ ~wanted THEN "ok"
    ELSE IF ~script_exists THEN "SystemExit"
    ELSE IF run # "ok" THEN "SystemExit"
    ELSE "ok"

\* setup_direnv (wtd): nothing without .envrc; without direnv an info line
\* only; direnv allow.
SetupDirenv(envrc_exists, direnv_version, direnv_allow) ==
    IF ~envrc_exists THEN "ok"
    ELSE IF direnv_version # "ok" THEN "ok"
    ELSE IF direnv_allow # "ok" THEN "warning"
    ELSE "ok"

\* setup_python_venv (wtd): only CalledProcessError is handled, and a second
\* failing "uv venv" is raised as RuntimeError.  venv is "run", "no_venv"
\* (--no-venv) or "no_uv" (the uv check at the start of main() failed, with a
\* warning, and switched the step off).
WtdSetupPythonVenv(venv, uv_python_install, uv_venv, uv_venv_again, requirements, uv_pip_install) ==
    IF venv = "no_venv" THEN "ok"
    ELSE IF venv = "no_uv" THEN "warning"
    ELSE IF uv_python_install = "timeout" THEN "TimeoutExpired"
    ELSE IF uv_venv = "timeout" THEN "TimeoutExpired"
    ELSE IF uv_venv = "nonzero" /\ uv_venv_again = "timeout" THEN "TimeoutExpired"
    ELSE IF uv_venv = "nonzero" /\ uv_venv_again = "nonzero" THEN "RuntimeError"
    ELSE IF requirements /\ uv_pip_install = "timeout" THEN "TimeoutExpired"
    ELSE IF uv_python_install = "nonzero" \/ uv_venv = "nonzero"
            \/ (requirements /\ uv_pip_install = "nonzero")
    THEN "warning"
    ELSE "ok"

\* The post-setup steps of each script, in the order main() calls them.
PostSetupSteps(sc) ==
    IF sc = "docimp"
    THEN <<"configure_husky_hooks", "install_npm_dependencies", "setup_python_venv",
           "setup_node_version", "enable_direnv", "install_hooks">>
    ELSE <<"setup_direnv", "setup_python_venv">>

\* Every way each step can end, over the outcomes of the tools it runs.
ConfigureHuskyHooksResults ==
    { ConfigureHuskyHooks(g, n) : g \in {"ok", "nonzero"}, n \in ToolOutcomes }
InstallNpmDependenciesResults ==
    { InstallNpmDependencies(c, i, b) :
        c \in BOOLEAN, i \in ToolOutcomes, b \in FoundToolOutcomes }
DocimpSetupPythonVenvResults ==
    { DocimpSetupPythonVenv(i, v, p, y) :
        i \in ToolOutcomes, v \in FoundToolOutcomes, p \in FoundToolOutcomes,
        y \in FoundToolOutcomes }
SetupNodeVersionResults ==
    { SetupNodeVersion(f, c, i) :
        f \in BOOLEAN, c \in ToolOutcomes, i \in FoundToolOutcomes }
EnableDirenvResults ==
    { EnableDirenv(f, a) : f \in BOOLEAN, a \in ToolOutcomes }
InstallHooksResults ==
    { InstallHooks(h, w, e, r) :
        h \in BOOLEAN, w \in BOOLEAN, e \in BOOLEAN, r \in {"ok", "nonzero"} }
SetupDirenvResults ==
    { SetupDirenv(f, v, a) :
        f \in BOOLEAN, v \in ToolOutcomes, a \in FoundToolOutcomes }
WtdSetupPythonVenvResults ==
    { WtdSetupPythonVenv(m, i, v, w, q, r) :
        m \in {"run", "no_venv", "no_uv"}, i \in FoundToolOutcomes,
        v \in FoundToolOutcomes, w \in FoundToolOutcomes, q \in BOOLEAN,
        r \in FoundToolOutcomes }

\* The ways the steps of a script can end, one result for each step.
DocimpPostSetupRuns ==
    { <<h, n, v, o, d, i>> :
        h \in ConfigureHuskyHooksResults, n \in InstallNpmDependenciesResults,
        v \in DocimpSetupPythonVenvResults, o \in SetupNodeVersionResults,
        d \in EnableDirenvResults, i \in InstallHooksResults }
WtdPostSetupRuns ==
    { <<d, v>> : d \in SetupDirenvResults, v \in WtdSetupPythonVenvResults }

\* What main() makes of the way a step ended: the wtd script catches the
\* RuntimeError of setup_python_venv and warns; nothing else is caught.
MainCatches(sc, step, result) ==
    IF sc = "wtd" /\ step = "setup_python_venv" /\ result = "RuntimeError"
    THEN "warning"
    ELSE result

NoPost == [done |-> <<>>, warned |-> {}, failure |-> "", at |-> ""]

\* main() from the first post-setup step on: the steps that ended, those that
\* warned, and the exception that ended the run at a step, if any.
RECURSIVE RunSteps(_, _, _)
RunSteps(sc, steps, results) ==
    IF steps = <<>> THEN NoPost
    ELSE LET r == MainCatches(sc, Head(steps), Head(results))
             rest == RunSteps(sc, Tail(steps), Tail(results))
         IN  IF r \in {"ok", "warning"}
             THEN [rest EXCEPT !.done = <<Head(steps)>> \o @,
                               !.warned = IF r = "warning" THEN @ \cup {Head(steps)}
                                          ELSE @]
             ELSE [NoPost EXCEPT !.failure = r, !.at = Head(steps)]

\* The ways main() can go from the first post-setup step on.
DocimpPostSetupEnds ==
    { RunSteps("docimp", PostSetupSteps("docimp"), rs) : rs \in DocimpPostSetupRuns }
WtdPostSetupEnds ==
    { RunSteps("wtd", PostSetupSteps("wtd"), rs) : rs \in WtdPostSetupRuns }
PostSetupEnds(sc) == IF sc = "docimp" THEN DocimpPostSetupEnds ELSE WtdPostSetupEnds

\* The steps after the symlinks, to the end of main(): return 0 after the last
\* step, exit 1 from exit_with_error, or an exception nobody catches.
PostSetup ==
    /\ pc = "post_setup"
    /\ \E r \in PostSetupEnds(script) :
              /\ post' = r
              /\ warnings' = IF r.warned # {}
                             THEN warnings \cup {"post-setup step failed"}
                             ELSE warnings
              /\ IF r.failure = "" THEN /\ pc' = "exit"
                                        /\ exit_code' = 0
                                        /\ UNCHANGED errors
                 ELSE IF r.failure = "SystemExit" THEN ExitWithError("Failed to install hooks")
                 ELSE Uncaught(r.failure)
    /\ UNCHANGED <<argVars, queryVars, bbVars, linkVars, repoVars, promptVars, localVars, ops>>

Next ==
    \/ ParseArgs
    \/ ValidateRepo
    \/ ValidateSourceBranch
    \/ InspectSource
    \/ Resolve
    \/ BuildMenu
    \/ PromptInput
    \/ GitCheckout
    \/ GitPull
    \/ GitFetch
    \/ CollisionCheck
    \/ WorktreeAddNewBranch
    \/ StashPush
    \/ CreateBranch
    \/ WorktreeAdd
    \/ StashApply
    \/ StashDrop
    \/ Linking
    \/ Cleanup
    \/ PostSetup

Spec == Init /\ [][Next]_vars

\* prompt_include_changes on its own: called with any ChangeSet, fed any lines.
ChangeSets ==
    { [is_none |-> FALSE, uncommitted |-> u, unpushed |-> n > 0, unpushed_count |-> n] :
        u \in BOOLEAN, n \in 0..MaxUnpushed }

InitPrompt ==
    /\ script \in Scripts
    /\ exclude_changes = FALSE
    /\ include_changes = "None"
    /\ source_branch = "feature"
    /\ srcCheckedOut = TRUE
    /\ changes_info \in ChangeSets
    /\ hasUpstream \in BOOLEAN
    /\ hasUpstream = changes_info.unpushed
    /\ ahead = changes_info.unpushed_count
    /\ srcTree \in SUBSET (TrackedEdits \cup UntrackedFiles)
    /\ (srcTree # {}) = changes_info.uncommitted
    /\ stashList = <<>>
    /\ newBranchExists = FALSE
    /\ newBranch = 0
    /\ wtExists = FALSE
    /\ newTree = {}
    /\ atStart = [srcTree |-> srcTree, stashList |-> stashList,
                  wtExists |-> wtExists, newBranchExists |-> newBranchExists]
    /\ cwdBranch = "main"
    /\ pc = "prompt_menu"
    /\ include_changes_choice = "None"
    /\ branch_type = "local"
    /\ source_worktree_path = "src_wt"
    /\ options = <<>>
    /\ default_choice = <<>>
    /\ choice = <<>>
    /\ reprompts = 0
    /\ prompted = FALSE
    /\ stashed = FALSE
    /\ exit_code = -1
    /\ errors = {}
    /\ warnings = {}
    /\ ops = <<>>
    /\ queries = [list |-> "ok", status |-> "ok"]
    /\ post = [done |-> <<>>, warned |-> {}, failure |-> "", at |-> ""]
    /\ fsBefore = CleanFs
    /\ links = NoLinks
    /\ created_symlinks = <<>>
    /\ linker_runs = 0
    /\ include_local = FALSE

NextPrompt == BuildMenu \/ PromptInput

SpecPrompt == InitPrompt /\ [][NextPrompt]_vars

\* The Materializer of modes uncommitted and all beside another process that
\* uses the stash of the same repository: the run starts at its stash push, the
\* mode pre-selected on the command line, the source worktree found.
MaxConcurrentPush == 1  \* most stash entries the other process pushes

ConcurrentEntry == [msg |-> "concurrent", changes |-> {"foreign_edit"}]
ConcurrentPushes ==
    Cardinality({i \in 1..Len(stashList) : stashList[i] = ConcurrentEntry})

InitRace ==
    /\ script \in Scripts
    /\ exclude_changes = FALSE
    /\ include_changes \in {"uncommitted", "all"}
    /\ source_branch = "feature"
    /\ srcCheckedOut = TRUE
    /\ hasUpstream \in BOOLEAN
    /\ ahead \in IF hasUpstream THEN 0..MaxUnpushed ELSE {0}
    /\ srcTree \in SUBSET (TrackedEdits \cup UntrackedFiles)
    /\ srcTree # {} \/ ahead > 0
    /\ \E n \in 0..MaxForeignStash :
          stashList = [i \in 1..n |-> [msg |-> "foreign", changes |-> {"foreign_edit"}]]
    /\ newBranchExists = FALSE
    /\ newBranch = 0
    /\ wtExists = FALSE
    /\ newTree = {}
    /\ atStart = [srcTree |-> srcTree, stashList |-> stashList,
                  wtExists |-> wtExists, newBranchExists |-> newBranchExists]
    /\ cwdBranch = "main"
    /\ pc = "stash_push"
    /\ include_changes_choice = include_changes
    /\ branch_type = "local"
    /\ source_worktree_path = "src_wt"
    /\ changes_info = CheckLocalChanges(TRUE)
    /\ options = <<>>
    /\ default_choice = <<>>
    /\ choice = <<>>
    /\ reprompts = 0
    /\ prompted = FALSE
    /\ stashed = FALSE
    /\ exit_code = -1
    /\ errors = {}
    /\ warnings = {}
    /\ ops = <<>>
    /\ queries = [list |-> "ok", status |-> "ok"]
    /\ post = [done |-> <<>>, warned |-> {}, failure |-> "", at |-> ""]
    /\ fsBefore = CleanFs
    /\ links = NoLinks
    /\ created_symlinks = <<>>
    /\ linker_runs = 0
    /\ include_local = FALSE

\* Another process runs "git stash push" in the repository while the run is
\* between its own stash push and its stash drop.
ConcurrentStashPush ==
    /\ pc \in {"branch", "worktree_add", "stash_apply", "stash_drop"}
    /\ ConcurrentPushes < MaxConcurrentPush
    /\ stashList' = <<ConcurrentEntry>> \o stashList
    /\ UNCHANGED <<argVars, queryVars, bbVars, postVars, linkVars, srcCheckedOut, hasUpstream, ahead,
                   srcTree, newBranchExists, newBranch, wtExists, newTree, cwdBranch,
                   promptVars, localVars, outVars, pc>>

NextRace ==
    \/ StashPush
    \/ CreateBranch
    \/ WorktreeAdd
    \/ StashApply
    \/ StashDrop
    \/ ConcurrentStashPush
    \/ Linking
    \/ Cleanup
    \/ PostSetup

SpecRace == InitRace /\ [][NextRace]_vars

\* ------------------------------------------------ brotein-buddy setup-worktree.py
\* The setup-worktree.py script of brotein-buddy on the same abstraction of the
\* repository: a source worktree with its uncommitted paths, the new branch,
\* the new worktree under wt/.

\* str.lower() on the characters a line of input may hold.
LowerChar(ch) ==
    IF ch = "Y" THEN "y"
    ELSE IF ch = "E" THEN "e"
    ELSE IF ch = "S" THEN "s"
    ELSE IF ch = "N" THEN "n"
    ELSE IF ch = "O" THEN "o"
    ELSE ch
Lower(s) == [i \in 1..Len(s) |-> LowerChar(s[i])]

\* One pass of the y/n loop of pull_and_check_status: TRUE, FALSE, or
\* "reprompt" as the strings "yes", "no", "reprompt".
YesNoStep(line) ==
    LET c == Lower(Strip(line))
    IN  IF c \in { <<"y">>, <<"y", "e", "s">> } THEN "yes"
        ELSE IF c \in { <<"n">>, <<"n", "o">> } THEN "no"
        ELSE "reprompt"

\* Lines the user may type at the y/n prompt.
YesNoLines == { <<>>, <<"y">>, <<"Y">>, <<"n">>, <<"N", "o">>, <<"y", "e", "s">>,
                <<" ", "y", " ">>, <<"y", "e">>, <<"1">> }

\* Everything outside the new branch, the new worktree and the locals of the
\* script's main().
bbFrame == <<argVars, queryVars, postVars, linkVars, srcCheckedOut, hasUpstream, ahead,
             srcTree, stashList, cwdBranch, options, default_choice, prompted,
             localVars, warnings>>

InitBrotein ==
    /\ script = "brotein"
    /\ exclude_changes \in BOOLEAN
    /\ include_changes = "None"
    /\ source_branch = "feature"
    /\ srcCheckedOut = TRUE
    /\ hasUpstream \in BOOLEAN
    /\ ahead \in IF hasUpstream THEN 0..MaxUnpushed ELSE {0}
    /\ srcTree \in SUBSET (TrackedEdits \cup UntrackedFiles)
    /\ stashList = <<>>
    /\ newBranchExists \in BOOLEAN
    /\ newBranch = 0
    /\ wtExists \in BOOLEAN
    /\ newTree = {}
    /\ atStart = [srcTree |-> srcTree, stashList |-> stashList,
                  wtExists |-> wtExists, newBranchExists |-> newBranchExists]
    /\ cwdBranch = "main"
    /\ pc = "bb_pull"
    /\ include_changes_choice = "None"
    /\ branch_type = "local"
    /\ source_worktree_path = "src_wt"
    /\ changes_info = NoChanges
    /\ options = <<>>
    /\ default_choice = <<>>
    /\ choice = <<>>
    /\ reprompts = 0
    /\ prompted = FALSE
    /\ stashed = FALSE
    /\ exit_code = -1
    /\ errors = {}
    /\ warnings = {}
    /\ ops = <<>>
    /\ queries = NoQueries
    /\ post = [done |-> <<>>, warned |-> {}, failure |-> "", at |-> ""]
    /\ fsBefore = CleanFs
    /\ links = NoLinks
    /\ created_symlinks = <<>>
    /\ linker_runs = 0
    /\ include_local = FALSE

\* pull_and_check_status up to the y/n loop: git pull, git status --porcelain
\* (untracked files are listed too), --exclude-changes.
BbPullAndCheckStatus ==
    /\ pc = "bb_pull"
    /\ \E pull_ok \in BOOLEAN, status_ok \in BOOLEAN :
          /\ ops' = Append(ops, Op("pull", "", pull_ok))
          /\ IF ~pull_ok
             THEN ExitWithError("Error pulling from remote")
             ELSE /\ pc' = IF status_ok /\ srcTree # {} /\ ~exclude_changes
                           THEN "bb_prompt"
                           ELSE "bb_details"
                  /\ Running
    /\ include_local' = FALSE
    /\ UNCHANGED <<bbFrame, newBranchExists, newBranch, wtExists, newTree, choice,
                   reprompts>>

\* The y/n loop of pull_and_check_status: read one line.
BbPromptInput ==
    /\ pc = "bb_prompt"
    /\ \E line \in YesNoLines :
          LET r == YesNoStep(line)
          IN  /\ choice' = Lower(Strip(line))
              /\ IF r = "reprompt"
                 THEN /\ reprompts < MaxReprompts
                      /\ reprompts' = reprompts + 1
                      /\ UNCHANGED <<pc, include_local>>
                 ELSE /\ include_local' = (r = "yes")
                      /\ pc' = "bb_details"
                      /\ UNCHANGED reprompts
    /\ UNCHANGED <<bbFrame, newBranchExists, newBranch, wtExists, newTree, outVars>>

\* get_branch_details and assign_port: an empty branch or directory name is
\* sys.exit(1); no free port is an exception nobody catches.
BbBranchDetails ==
    /\ pc = "bb_details"
    /\ \E outcome \in {"ok", "no_name", "no_port"} :
          IF outcome = "ok" THEN pc' = "bb_create" /\ Running
          ELSE IF outcome = "no_name" THEN ExitWithError("Branch name is required")
          ELSE Uncaught("Exception")
    /\ UNCHANGED <<bbFrame, bbVars, newBranchExists, newBranch, wtExists, newTree,
                   choice, reprompts, ops>>

\* create_worktree: wt_dir.exists(), git branch <branch> in the source
\* worktree (the same command whether or not include_local_changes; "already
\* exists" is let through), git worktree add <wt_dir> <branch>.
BbCreateWorktree ==
    /\ pc = "bb_create"
    /\ IF wtExists
       THEN /\ ExitWithError("Worktree already exists")
            /\ UNCHANGED <<newBranchExists, newBranch, wtExists, newTree, ops>>
       ELSE \E branch_other_error \in BOOLEAN, add_ok \in BOOLEAN :
              LET branch_ok == ~newBranchExists /\ ~branch_other_error
                  go_on == branch_ok \/ (newBranchExists /\ ~branch_other_error)
                  log1 == Append(ops, Op("branch", "", branch_ok))
              IN  /\ newBranchExists' = (newBranchExists \/ branch_ok)
                  /\ newBranch' = IF branch_ok THEN SourceHead ELSE newBranch
                  /\ IF ~go_on
                     THEN /\ ops' = log1
                          /\ ExitWithError("Error creating branch")
                          /\ UNCHANGED <<wtExists, newTree>>
                     ELSE /\ ops' = Append(log1, Op("worktree_add", "branch", add_ok))
                          /\ IF add_ok
                             THEN /\ wtExists' = TRUE
                                  /\ newTree' = {}
                                  /\ pc' = "bb_setup"
                                  /\ Running
                             ELSE /\ ExitWithError("Failed to create worktree")
                                  /\ UNCHANGED <<wtExists, newTree>>
    /\ UNCHANGED <<bbFrame, bbVars, choice, reprompts>>

\* create_symlinks, create_env_file, validate_and_fix_gitignore,
\* install_dependencies: the run ends, or exits 1 when .shared is missing.
BbSetup ==
    /\ pc = "bb_setup"
    /\ \E shared_exists \in BOOLEAN :
          IF shared_exists
          THEN /\ pc' = "exit"
               /\ exit_code' = 0
               /\ UNCHANGED errors
          ELSE ExitWithError(".shared directory not found")
    /\ UNCHANGED <<bbFrame, bbVars, newBranchExists, newBranch, wtExists, newTree,
                   choice, reprompts, ops>>

NextBrotein ==
    \/ BbPullAndCheckStatus
    \/ BbPromptInput
    \/ BbBranchDetails
    \/ BbCreateWorktree
    \/ BbSetup

SpecBrotein == InitBrotein /\ [][NextBrotein]_vars

\* The Linker on its own: run on a worktree that was just added, over a wider
\* range of file systems, and run again on what it left behind.
MaxLinkerRuns == 2      \* most runs of the Linker on one worktree

OccupantTags == {"absent", "file", "dir", "own", "elsewhere", "nowhere"}
At(sp, tag) ==
    IF tag = "absent" THEN Absent
    ELSE IF tag = "file" THEN RegularFile
    ELSE IF tag = "dir" THEN Directory
    ELSE IF tag = "own" THEN Symlink(sp.target)
    ELSE Symlink(tag)

\* The link paths of a table, each holding what tags says.
Place(table, tags) ==
    [l \in LinkNames |->
        IF \E i \in DOMAIN table : table[i].link_name = l
        THEN LET i == CHOOSE j \in DOMAIN table : table[j].link_name = l
             IN  At(table[i], tags[i])
        ELSE Absent]

\* A path inside .claude/ can only be taken when .claude is a directory.
WithClaudeDir(paths) ==
    IF \E sp \in Range(DocimpClaudeSymlinks) : paths[sp.link_name] # Absent
    THEN [paths EXCEPT ![".claude"] = Directory]
    ELSE paths

\* Every link of the script in place (with .claude/ made, for docimp).
AllLinked(sc) ==
    LET p == Place(SymlinkTable(sc), [i \in DOMAIN SymlinkTable(sc) |-> "own"])
    IN  IF sc = "docimp" THEN WithClaudeDir(p) ELSE p

Placements(sc) ==
    { IF sc = "docimp" THEN WithClaudeDir(Place(SymlinkTable(sc), g))
      ELSE Place(SymlinkTable(sc), g) :
        g \in { f \in [DOMAIN SymlinkTable(sc) -> OccupantTags] :
                  Cardinality({i \in DOMAIN f : f[i] # "absent"}) <= MaxOccupied } }
    \cup {AllLinked(sc)}
    \cup (IF sc = "docimp"
          THEN { [NoLinks EXCEPT ![".claude"] = k] : k \in {RegularFile, Directory} }
          ELSE {})

WideScenarios(sc) ==
    { [missing |-> m, paths |-> p, unwritable |-> {}] :
        m \in {x \in SUBSET Targets(sc) : Cardinality(x) <= MaxMissing},
        p \in Placements(sc) }
    \cup
    { [missing |-> {}, paths |-> p, unwritable |-> {sp.link_name}] :
        sp \in Range(SymlinkTable(sc)), p \in Placements(sc) }

InitLinker ==
    /\ script \in Scripts
    /\ exclude_changes = FALSE
    /\ include_changes = "None"
    /\ source_branch = "feature"
    /\ srcCheckedOut = FALSE
    /\ hasUpstream = TRUE
    /\ ahead = 0
    /\ srcTree = {}
    /\ stashList = <<>>
    /\ newBranchExists = TRUE
    /\ newBranch = 0
    /\ wtExists = TRUE
    /\ newTree = {}
    /\ atStart = [srcTree |-> srcTree, stashList |-> stashList,
                  wtExists |-> wtExists, newBranchExists |-> newBranchExists]
    /\ cwdBranch = "main"
    /\ pc = "linking"
    /\ include_changes_choice = "none"
    /\ branch_type = "local"
    /\ source_worktree_path = "None"
    /\ changes_info = NoChanges
    /\ options = <<>>
    /\ default_choice = <<>>
    /\ choice = <<>>
    /\ reprompts = 0
    /\ prompted = FALSE
    /\ stashed = FALSE
    /\ exit_code = -1
    /\ errors = {}
    /\ warnings = {}
    /\ queries = [list |-> "ok", status |-> "ok"]
    /\ ops = <<Op("worktree_add", source_branch, TRUE)>>
    /\ post = [done |-> <<>>, warned |-> {}, failure |-> "", at |-> ""]
    /\ fsBefore = CleanFs
    /\ links = NoLinks
    /\ created_symlinks = <<>>
    /\ linker_runs = 0
    /\ include_local = FALSE

\* The "try:" block, over the wider range of file systems.
LinkingWide ==
    /\ pc = "linking"
    /\ \E fs \in WideScenarios(script) :
          /\ fsBefore' = fs
          /\ RunLinkerOn(fs)
    /\ UNCHANGED <<argVars, queryVars, bbVars, postVars, repoVars, promptVars, localVars, ops>>

\* The Linker once more, on the worktree as its last run left it.
Relink ==
    /\ pc = "post_setup"
    /\ linker_runs < MaxLinkerRuns
    /\ RunLinkerOn([fsBefore EXCEPT !.paths = links])
    /\ UNCHANGED <<fsBefore, argVars, queryVars, bbVars, postVars, repoVars, promptVars, localVars, ops>>

NextLinker == LinkingWide \/ Relink \/ Cleanup

SpecLinker == InitLinker /\ [][NextLinker]_vars

\* ====================================================================== claims
\* The run is past the resolver: include_changes_choice is final.
Resolved ==
    pc \notin {"parse_args", "validate_repo", "validate_source", "inspect",
               "resolve", "prompt_menu", "prompt"}
\* The Materializer is at work, or has finished, with include_changes_choice.
InMaterializer ==
    pc \in {"add_from_start", "stash_push", "branch", "worktree_add",
            "stash_apply", "stash_drop"}
HasChangeSet == source_worktree_path # "None" /\ ~changes_info.is_none
\* prompt_include_changes has returned.
Returned == prompted /\ pc \notin {"prompt_menu", "prompt"}

\* C1: for every ChangeSet with hasUncommitted and hasUnpushed both false the
\* resolver settles on mode none and prompt_include_changes is never called.
C1_NoChangesResolveNone ==
    (Resolved /\ HasChangeSet /\ ~changes_info.uncommitted /\ ~changes_info.unpushed)
        => (include_changes_choice = "none" /\ ~prompted)

C1_Witness ==
    /\ pc = "linking"
    /\ HasChangeSet
    /\ ~changes_info.uncommitted /\ ~changes_info.unpushed
    /\ include_changes = "None" /\ ~exclude_changes
    /\ include_changes_choice = "none"

\* C2: the menu holds none always, uncommitted iff hasUncommitted, unpushed iff
\* hasUnpushed and all iff both; nothing else, and each mode under one key.
C2_MenuMatchesChangeSet ==
    prompted =>
        /\ Range(options) =
              {"none"}
              \cup (IF changes_info.uncommitted THEN {"uncommitted"} ELSE {})
              \cup (IF changes_info.unpushed THEN {"unpushed"} ELSE {})
              \cup (IF changes_info.uncommitted /\ changes_info.unpushed
                    THEN {"all"} ELSE {})
        /\ Cardinality(DOMAIN options) = Cardinality(Range(options))

C2_Witness ==
    /\ prompted
    /\ changes_info.uncommitted /\ ~changes_info.unpushed
    /\ Range(options) = {"none", "uncommitted"}

\* The default mode the specification asks for.
ExpectedDefault(ci) ==
    IF ci.uncommitted /\ ci.unpushed THEN "all"
    ELSE IF ci.uncommitted THEN "uncommitted"
    ELSE IF ci.unpushed THEN "unpushed"
    ELSE "none"

\* C3: the default is all with both kinds of change, the one kind that exists
\* otherwise, none with neither; the default key is a key of the menu; empty
\* input returns that default mode.
C3_DefaultChoice ==
    prompted =>
        /\ default_choice \in DOMAIN options
        /\ options[default_choice] = ExpectedDefault(changes_info)
        /\ (Returned /\ choice = <<>>)
              => include_changes_choice = ExpectedDefault(changes_info)

C3_Witness ==
    /\ Returned
    /\ choice = <<>>
    /\ changes_info.uncommitted /\ changes_info.unpushed
    /\ default_choice = Str(4)
    /\ include_changes_choice = "all"

\* C4: a line that, stripped, is neither empty nor a key of the menu leaves the
\* prompt where it is (no mode chosen, no exit); the prompt returns only on an
\* empty line or a key of the menu, and what it returns is a mode of the menu.
C4_PromptRejectsInvalid ==
    [][pc = "prompt" =>
        /\ (choice' # <<>> /\ choice' \notin DOMAIN options)
              => /\ pc' = "prompt"
                 /\ include_changes_choice' = include_changes_choice
                 /\ exit_code' = exit_code
        /\ pc' # "prompt"
              => /\ choice' = <<>> \/ choice' \in DOMAIN options
                 /\ include_changes_choice' \in Range(options)
                 /\ choice' # <<>> => include_changes_choice' = options[choice']
      ]_vars

C4_Witness ==
    /\ Returned
    /\ reprompts = MaxReprompts
    /\ choice = Str(2)
    /\ include_changes_choice = options[Str(2)]

\* C5 as claimed: a pre-selected mode always reaches the Materializer unchanged.
C5_PreSelectedAlwaysUsed ==
    (InMaterializer /\ PreSelected(exclude_changes, include_changes) # "None")
        => include_changes_choice = PreSelected(exclude_changes, include_changes)

\* C5, amended: a pre-selected mode reaches the Materializer unchanged, whatever
\* the flags of the ChangeSet, when a source worktree was found and it has some
\* change; with no source worktree, or no change in it, the mode is none.
C5_PreSelectedUsedWhenChanges ==
    (InMaterializer /\ PreSelected(exclude_changes, include_changes) # "None")
        => include_changes_choice =
              IF HasChangeSet /\ (changes_info.uncommitted \/ changes_info.unpushed)
              THEN PreSelected(exclude_changes, include_changes)
              ELSE "none"

C5_Witness ==
    /\ InMaterializer
    /\ include_changes = "all"
    /\ HasChangeSet
    /\ changes_info.unpushed /\ ~changes_info.uncommitted
    /\ include_changes_choice = "all"

\* The last git command the run issued.
LastOp == ops[Len(ops)]
\* Position of the first command cmd in the log, 0 when it was never issued.
FirstIndex(cmd) ==
    IF Issued(cmd) THEN CHOOSE i \in 1..Len(ops) :
                            /\ ops[i].cmd = cmd
                            /\ \A j \in 1..(i - 1) : ops[j].cmd # cmd
    ELSE 0
\* The stash entry this run pushed.
RunEntry == [msg |-> "temp-for-branch", changes |-> StashContent(atStart.srcTree)]
InStash(e) == \E i \in 1..Len(stashList) : stashList[i] = e

C7_UnpushedOnlyFrame ==
    (include_changes_choice = "unpushed" /\ Resolved) =>
        /\ ~Issued("stash_push") /\ ~Issued("stash_apply") /\ ~Issued("stash_drop")
        /\ srcTree = atStart.srcTree
        /\ stashList = atStart.stashList
        /\ Succeeded("branch") => newBranchExists /\ newBranch = SourceHead
        /\ Issued("worktree_add") =>
              /\ Succeeded("branch")
              /\ FirstIndex("branch") < FirstIndex("worktree_add")
              /\ ops[FirstIndex("worktree_add")].arg = "branch"
        /\ pc = "linking" =>
              /\ wtExists
              /\ UnpushedCommits \subseteq History(newBranch)
              /\ newTree = {}

C7_Witness ==
    /\ pc = "linking"
    /\ include_changes_choice = "unpushed"
    /\ changes_info.unpushed /\ changes_info.uncommitted
    /\ srcTree # {}
    /\ newBranch = SourceHead /\ SourceHead > 0
    /\ newTree = {}

\* Every git command the run issued exited 0.
AllOpsOk == \A i \in 1..Len(ops) : ops[i].ok

\* C8 as claimed: mode all with uncommitted changes and unpushed commits, every
\* git step having succeeded: the new branch has the unpushed commits, the new
\* worktree has the changes that were uncommitted, the run's stash entry is gone.
C8_AllTransplantsEverything ==
    (/\ include_changes_choice = "all"
     /\ HasChangeSet /\ changes_info.uncommitted /\ changes_info.unpushed
     /\ pc = "linking"
     /\ AllOpsOk) =>
        /\ UnpushedCommits \subseteq History(newBranch)
        /\ atStart.srcTree \subseteq newTree
        /\ stashList = atStart.stashList

\* C9: a failed stash apply leaves the new worktree in place and the run's
\* stash entry on the stash, is never followed by a drop, gives a warning and
\* no error, and the run goes on to the symlinks.
C9_ApplyFailureIsWarning ==
    /\ [](\A i \in 1..Len(ops) :
            (ops[i].cmd = "stash_apply" /\ ~ops[i].ok) =>
                /\ ~Issued("stash_drop")
                /\ "Failed to apply stashed changes" \in warnings
                /\ InStash(RunEntry)
                /\ pc \in {"linking", "cleanup", "post_setup", "exit"})
    /\ [][(pc = "stash_apply" /\ ~ops'[Len(ops')].ok) =>
            /\ pc' = "linking"
            /\ wtExists'
            /\ stashList' = <<RunEntry>> \o atStart.stashList
            /\ errors' = {}
            /\ exit_code' = -1
         ]_vars

C9_Witness ==
    /\ pc = "linking"
    /\ include_changes_choice \in {"uncommitted", "all"}
    /\ LastOp = Op("stash_apply", "stash@{0}", FALSE)
    /\ wtExists
    /\ Head(stashList) = RunEntry

\* A required target of the wtd table was missing when the Linker ran.
RequiredTargetMissing ==
    /\ script = "wtd"
    /\ \E i \in 1..Len(WtdSymlinks) :
          WtdSymlinks[i].required /\ WtdSymlinks[i].target \in fsBefore.missing

\* C10 as claimed: with a required target missing the run ends with the new
\* worktree gone, no symlink created and a non-zero exit.
C10_RequiredMissingRemovesWorktree ==
    (pc = "exit" /\ RequiredTargetMissing) =>
        /\ ~wtExists
        /\ links = NoLinks
        /\ exit_code # 0

\* C10, amended: with a required target missing no symlink is created, the
\* force-removal of the new worktree is issued and the run exits 1; the
\* worktree is gone at the end when that removal succeeded, and is still there
\* when the removal itself failed.
C10_RequiredMissingCleanup ==
    RequiredTargetMissing =>
        /\ pc \in {"cleanup", "exit"}
        /\ links = NoLinks
        /\ created_symlinks = <<>>
        /\ pc = "exit" =>
              /\ exit_code = 1
              /\ LastOp.cmd = "worktree_remove"
              /\ wtExists = ~LastOp.ok

C10_Witness ==
    /\ pc = "exit"
    /\ RequiredTargetMissing
    /\ fsBefore.missing = {"../.shared/.planning"}
    /\ LastOp = Op("worktree_remove", "--force", TRUE)
    /\ ~wtExists
    /\ exit_code = 1

\* The wtd Linker met nothing but absent optional targets: every required
\* target is there, and every link path whose target is there is free and
\* writable or already the right symlink.
OnlyOptionalMissing ==
    \A i \in DOMAIN WtdSymlinks :
        LET sp == WtdSymlinks[i]
            p  == fsBefore.paths[sp.link_name]
        IN  IF sp.target \in fsBefore.missing THEN ~sp.required
            ELSE \/ p = Symlink(sp.target)
                 \/ p = Absent /\ sp.link_name \notin fsBefore.unwritable

\* C11: in the wtd script an absent target of an optional link gives a warning
\* (once validation gets to it: no required link earlier in the table has an
\* absent target); nothing is created at that link path and the link is not in
\* the returned list; when nothing else is wrong the Linker does not abort, and
\* every link whose target exists is in place and in the returned list.
C11_OptionalMissingSkipped ==
    (script = "wtd" /\ linker_runs >= 1) =>
        \A i \in DOMAIN WtdSymlinks :
            LET sp == WtdSymlinks[i]
            IN  (~sp.required /\ sp.target \in fsBefore.missing) =>
                    /\ (\A j \in 1..(i - 1) :
                           WtdSymlinks[j].required
                             => WtdSymlinks[j].target \notin fsBefore.missing)
                          => "Optional symlink target missing" \in warnings
                    /\ wtExists => links[sp.link_name] = fsBefore.paths[sp.link_name]
                    /\ links[sp.link_name] \in {Absent, fsBefore.paths[sp.link_name]}
                    /\ sp.link_name \notin Range(created_symlinks)
                    /\ OnlyOptionalMissing =>
                          /\ pc = "post_setup"
                          /\ exit_code = -1
                          /\ errors = {}
                          /\ \A j \in DOMAIN WtdSymlinks :
                                WtdSymlinks[j].target \notin fsBefore.missing =>
                                    /\ links[WtdSymlinks[j].link_name]
                                          = Symlink(WtdSymlinks[j].target)
                                    /\ WtdSymlinks[j].link_name \in Range(created_symlinks)

C11_Witness ==
    /\ script = "wtd"
    /\ linker_runs = 1
    /\ pc = "post_setup"
    /\ fsBefore = [CleanFs EXCEPT !.missing = {"../.shared/.envrc"}]
    /\ links[".envrc"] = Absent
    /\ links[".planning"] = Symlink("../.shared/.planning")
    /\ created_symlinks = <<".claude", ".planning", ".scratch", ".vscode", "CLAUDE.md">>


\* Link i of the script's table found its path taken by something that is not
\* the symlink it would create.
Conflict(i) ==
    LET sp == SymlinkTable(script)[i]
    IN  fsBefore.paths[sp.link_name] \notin {Absent, Symlink(sp.target)}
\* Link i is an optional link of the wtd table whose target is absent.
SkippedSpec(i) ==
    LET sp == SymlinkTable(script)[i]
    IN  script = "wtd" /\ ~sp.required /\ sp.target \in fsBefore.missing

\* C12 as claimed: whenever a link path is taken by something else the Linker
\* aborts, the new worktree is removed and the run exits 1.
C12_ConflictAlwaysAborts ==
    (linker_runs >= 1 /\ \E i \in DOMAIN SymlinkTable(script) : Conflict(i)) =>
        /\ pc \in {"cleanup", "exit"}
        /\ pc = "exit" => (~wtExists /\ exit_code = 1)

\* C12, amended: what is at a taken link path is left as it is for as long as
\* the worktree exists; unless the link is an optional wtd link whose target is
\* absent (it is skipped before its path is looked at), the Linker aborts, no
\* link is reported as created, the force-removal of the new worktree is issued
\* and the run exits 1, with the worktree gone when the removal succeeded and
\* still there when it failed.
C12_ConflictNeverOverwritten ==
    linker_runs >= 1 =>
        \A i \in DOMAIN SymlinkTable(script) :
            Conflict(i) =>
                /\ wtExists =>
                      links[SymlinkTable(script)[i].link_name]
                          = fsBefore.paths[SymlinkTable(script)[i].link_name]
                /\ ~SkippedSpec(i) =>
                      /\ pc \in {"cleanup", "exit"}
                      /\ created_symlinks = <<>>
                      /\ "Symlink creation failed" \in errors
                      /\ pc = "exit" =>
                            /\ exit_code = 1
                            /\ LastOp.cmd = "worktree_remove"
                            /\ wtExists = ~LastOp.ok

C12_Witness ==
    /\ pc = "exit"
    /\ script = "docimp"
    /\ fsBefore.paths["WARP.md"] = Symlink("nowhere")
    /\ Conflict(2)
    /\ LastOp = Op("worktree_remove", "--force", TRUE)
    /\ ~wtExists
    /\ exit_code = 1


\* Every link of the script's table is a symlink to its expected target.
AllInPlace ==
    \A sp \in Range(SymlinkTable(script)) : links[sp.link_name] = Symlink(sp.target)

\* C13: a run of the Linker on a worktree that an earlier run left with every
\* configured symlink in place ends without error or warning and changes no
\* path: the links and their targets after it are those before it, and it
\* reports the same links.
C13_LinkerIdempotent ==
    [][(linker_runs >= 1 /\ linker_runs' = linker_runs + 1 /\ AllInPlace) =>
          /\ links' = links
          /\ created_symlinks' = created_symlinks
          /\ pc' = "post_setup"
          /\ exit_code' = -1
          /\ errors' = errors
          /\ warnings' = warnings
      ]_vars

C13_Witness ==
    /\ linker_runs = MaxLinkerRuns
    /\ pc = "post_setup"
    /\ fsBefore = CleanFs
    /\ AllInPlace
    /\ Len(created_symlinks) = Len(SymlinkTable(script))
    /\ errors = {}


\* C14: when the worktree path or the branch name is already taken at the
\* start, the run never issues a stash push, a branch creation or a worktree
\* add, leaves the source worktree, the stash, the path and the branch as they
\* were, and when it exits it exits 1.
C14_CollisionBeforeMaterializer ==
    (atStart.wtExists \/ atStart.newBranchExists) =>
        /\ ~Issued("stash_push") /\ ~Issued("branch") /\ ~Issued("worktree_add")
        /\ ~InMaterializer
        /\ pc \notin {"linking", "cleanup", "post_setup"}
        /\ srcTree = atStart.srcTree
        /\ stashList = atStart.stashList
        /\ wtExists = atStart.wtExists
        /\ newBranchExists = atStart.newBranchExists
        /\ pc = "exit" => exit_code = 1

C14_Witness ==
    /\ pc = "exit"
    /\ exit_code = 1
    /\ ~atStart.wtExists /\ atStart.newBranchExists
    /\ "Branch already exists" \in errors
    /\ include_changes_choice = "all"
    /\ HasChangeSet /\ changes_info.uncommitted
    /\ srcTree # {}
    /\ ops = <<>>


\* The git commands of a run in mode none, in order, as the locals of main()
\* determine them: the docimp script's checkout and pull, or fetch, when the
\* source branch is in no worktree; the worktree add; the removal by cleanup.
NoneRunOps ==
    (IF script = "docimp" /\ source_worktree_path = "None" /\ branch_type = "local"
     THEN << <<"checkout", source_branch>>, <<"pull", "">> >>
     ELSE IF script = "docimp" /\ source_worktree_path = "None" /\ branch_type = "remote"
     THEN << <<"fetch", "">> >>
     ELSE << >>)
    \o << <<"worktree_add", StartPoint("none", source_worktree_path, changes_info)>>,
          <<"worktree_remove", "--force">> >>
\* The commands issued so far are the first commands of sequence cmds.
OpsPrefixOf(cmds) ==
    /\ Len(ops) <= Len(cmds)
    /\ \A i \in 1..Len(ops) : <<ops[i].cmd, ops[i].arg>> = cmds[i]

\* C15: a run with --exclude-changes and a run with --include-changes=none
\* both carry mode none from the command line on, never prompt, and issue the
\* same git commands, those of mode none that the repository determines; a run
\* with both flags issues no git command, changes nothing and exits 1.
C15_ExcludeIsIncludeNone ==
    /\ ((exclude_changes /\ include_changes = "None")
            \/ (~exclude_changes /\ include_changes = "none")) =>
          /\ include_changes_choice \in {"None", "none"}
          /\ (pc \notin {"parse_args", "exit"} /\ ~(script = "wtd" /\ pc = "validate_repo"))
                => include_changes_choice = "none"
          /\ (pc = "exit" /\ branch_type # "") => include_changes_choice = "none"
          /\ ~prompted
          /\ OpsPrefixOf(NoneRunOps)
    /\ (exclude_changes /\ include_changes # "None") =>
          /\ pc \in {"parse_args", "validate_repo", "exit"}
          /\ ops = <<>>
          /\ srcTree = atStart.srcTree /\ stashList = atStart.stashList
          /\ wtExists = atStart.wtExists /\ newBranchExists = atStart.newBranchExists
          /\ cwdBranch = "main"
          /\ pc = "exit" => exit_code = 1

C15_Witness ==
    /\ exclude_changes /\ include_changes = "None"
    /\ pc = "post_setup"
    /\ HasChangeSet /\ changes_info.uncommitted /\ changes_info.unpushed
    /\ include_changes_choice = "none"
    /\ ops = <<Op("worktree_add", UpstreamBranch, TRUE)>>


\* The post-setup steps were entered.
PostSetupRan == post # NoPost

\* C16 as claimed: whatever the tools of the optional post-setup steps do
\* (husky, npm, venv, node version, direnv), the run goes through every step
\* and ends with exit code 0.
C16_PostSetupNeverFatal ==
    (PostSetupRan /\ post.at # "install_hooks") =>
        /\ post.failure = ""
        /\ post.done = PostSetupSteps(script)
        /\ exit_code = 0


\* C17 as claimed: in mode uncommitted, with unpushed commits in the source
\* worktree, the new branch has none of the unpushed commits in its history.
C17_UncommittedExcludesUnpushed ==
    (/\ include_changes_choice = "uncommitted"
     /\ HasChangeSet /\ changes_info.unpushed
     /\ pc = "linking") =>
        History(newBranch) \cap UnpushedCommits = {}


\* C18 as claimed: when the force-removal of the new worktree fails during
\* cleanup, the run warns with the manual-recovery instruction and exits 1
\* with the Linker's failure, no new error raised from inside the handler.
C18_CleanupFailureIsWarning ==
    (pc = "exit" /\ Issued("worktree_remove") /\ ~LastOp.ok) =>
        /\ "Please manually remove: git worktree remove" \in warnings
        /\ "Git command failed" \notin errors
        /\ exit_code = 1


\* C19 as claimed: a run that exits non-zero after the new worktree was
\* created has removed it.
C19_NonZeroExitRemovesWorktree ==
    (pc = "exit" /\ exit_code # 0 /\ Succeeded("worktree_add")) => ~wtExists

\* C20 as claimed: a run in which a git command of the Materializer other than
\* the stash apply exited non-zero ends with exit code 1.
C20_MaterializerFailuresFatal ==
    (/\ pc = "exit"
     /\ \E i \in 1..Len(ops) :
           /\ ops[i].cmd \in {"stash_push", "branch", "worktree_add", "stash_drop"}
           /\ ~ops[i].ok)
      => exit_code = 1

\* C21 as claimed: a run in which the worktree-listing query or the status
\* query exited non-zero creates no worktree and does not end with exit code 0.
C21_QueryFailureIsFatal ==
    "failed" \in {queries.list, queries.status} =>
        /\ ~Succeeded("worktree_add")
        /\ pc = "exit" => exit_code = 1

\* The phase main() is in, as a rank: Validating 1, BranchResolving 2,
\* Materializing 3, Linking 4, AbortedCleanup and BootstrappingEnv 5, the end 6.
PhaseRank(at) ==
    IF at \in {"parse_args", "validate_repo", "validate_source"} THEN 1
    ELSE IF at \in {"inspect", "resolve", "prompt_menu", "prompt", "checkout", "pull",
                    "fetch"} THEN 2
    ELSE IF at \in {"collision", "add_from_start", "stash_push", "branch",
                    "worktree_add", "stash_apply", "stash_drop"} THEN 3
    ELSE IF at = "linking" THEN 4
    ELSE IF at \in {"cleanup", "post_setup"} THEN 5
    ELSE 6

\* C22: no step of a run goes back to an earlier phase; the symlinks are not
\* started before the new worktree exists; a run ends with exit code 0 only
\* from the post-setup steps, which follow a Linker that did not abort; the
\* cleanup is entered only from the symlink block.
C22_PhasesInOrder ==
    [][/\ PhaseRank(pc') >= PhaseRank(pc)
       /\ pc' = "linking" => wtExists'
       /\ (pc' = "exit" /\ exit_code' = 0) =>
             /\ pc = "post_setup"
             /\ linker_runs >= 1
             /\ "Symlink creation failed" \notin errors
             /\ ~Issued("worktree_remove")
       /\ pc' = "post_setup" => pc = "linking"
       /\ pc' = "cleanup" => PhaseRank(pc) \in {3, 4}]_vars

C22_Witness ==
    /\ pc = "exit"
    /\ exit_code = 0
    /\ prompted
    /\ Succeeded("stash_drop")
    /\ linker_runs = 1
    /\ PostSetupRan

\* The git commands of the Materializer in modes uncommitted and all, followed
\* by the cleanup's removal.
TransplantOps ==
    << <<"stash_push", "">>, <<"branch", "">>, <<"worktree_add", "branch">>,
       <<"stash_apply", "stash@{0}">>, <<"stash_drop", "stash@{0}">>,
       <<"worktree_remove", "--force">> >>
\* The place of a logged command in TransplantOps, 0 when it is not there.
TransplantIndex(o) ==
    IF \E k \in 1..Len(TransplantOps) : <<o.cmd, o.arg>> = TransplantOps[k]
    THEN CHOOSE k \in 1..Len(TransplantOps) : <<o.cmd, o.arg>> = TransplantOps[k]
    ELSE 0
\* Every command of the log is one of TransplantOps and comes later in it
\* than the command logged before.
InTransplantOrder ==
    \A i \in 1..Len(ops) :
        /\ TransplantIndex(ops[i]) > 0
        /\ i > 1 => TransplantIndex(ops[i - 1]) < TransplantIndex(ops[i])

\* C23: in modes uncommitted and all the git commands come in the order stash
\* push, branch, worktree add, stash apply, stash drop; the apply is reached
\* only with the new branch and the new worktree in place and with a stash push
\* that stashed something; the drop is reached only after an apply that
\* succeeded.
C23_TransplantOrder ==
    (InMaterializer \/ pc \in {"linking", "cleanup", "post_setup"}
        \/ (pc = "exit" /\ ops # <<>>))
    /\ include_changes_choice \in {"uncommitted", "all"} =>
        /\ InTransplantOrder
        /\ (pc = "stash_apply" \/ Issued("stash_apply")) =>
              /\ Succeeded("stash_push") /\ stashed
              /\ Succeeded("branch") /\ Succeeded("worktree_add")
              /\ pc = "stash_apply" => (newBranchExists /\ wtExists)
        /\ (pc = "stash_drop" \/ Issued("stash_drop")) => Succeeded("stash_apply")

C23_Witness ==
    /\ include_changes_choice = "all"
    /\ pc = "linking"
    /\ Succeeded("stash_apply")
    /\ Issued("stash_drop")
    /\ Len(ops) = 5

\* Stash entries that were not pushed by the run.
OtherEntries == {i \in 1..Len(stashList) : stashList[i] # RunEntry}

\* C24 as claimed: with another process pushing stash entries, what a
\* successful stash apply put into the new worktree is the content of the
\* entry the run pushed, and after a successful stash drop that entry is gone
\* from the stash while every entry of the other process is still there.
C24_OwnStashEntryOnly ==
    /\ (Succeeded("stash_apply") /\ wtExists) => newTree = RunEntry.changes
    /\ Succeeded("stash_drop") =>
          /\ ~InStash(RunEntry)
          /\ Cardinality(OtherEntries) = Len(atStart.stashList) + ConcurrentPushes

\* C25 as claimed: in the brotein-buddy script, once the run has added the new
\* worktree from a source worktree with uncommitted changes, the new worktree
\* holds those changes when include_local is true and none of them when it is
\* false.
C25_BroteinIncludesLocalChanges ==
    (script = "brotein" /\ Succeeded("worktree_add") /\ atStart.srcTree # {}) =>
        IF include_local THEN atStart.srcTree \subseteq newTree
        ELSE newTree \cap atStart.srcTree = {}

\* main() is past the resolver and at or after its first git command.
PastResolver ==
    \/ pc \in {"checkout", "pull", "fetch"}
    \/ PhaseRank(pc) \in 3..5
    \/ pc = "exit" /\ ops # <<>>

\* C26: once the resolver is done, a mode other than none goes with a source
\* worktree that was found; without one (remote branch, or local branch in no
\* worktree) the mode is none, and no stash or branch command is issued.
C26_ModeNeedsSourceWorktree ==
    PastResolver =>
        /\ include_changes_choice # "none" =>
              /\ source_worktree_path # "None"
              /\ branch_type = "local"
        /\ source_worktree_path = "None" =>
              /\ include_changes_choice = "none"
              /\ \A i \in 1..Len(ops) :
                    ops[i].cmd \notin {"stash_push", "branch", "stash_apply", "stash_drop"}
        /\ pc \in {"stash_push", "branch"} => source_worktree_path # "None"

C26_Witness ==
    /\ include_changes = "all"
    /\ include_changes_choice = "all"
    /\ source_worktree_path = "src_wt"
    /\ Succeeded("stash_push")
    /\ Succeeded("branch")

\* C27 as claimed: when a run in mode uncommitted or all that stashed changes
\* has ended, every stashed change is still in the source working tree, in an
\* entry of the stash list, or in the working tree of the new worktree.
C27_NoLossOfUncommittedWork ==
    (/\ pc = "exit"
     /\ include_changes_choice \in {"uncommitted", "all"}
     /\ stashed) =>
        \A c \in RunEntry.changes :
            \/ c \in srcTree
            \/ \E i \in 1..Len(stashList) : c \in stashList[i].changes
            \/ wtExists /\ c \in newTree

\* The run created the new branch: "git branch", or "git worktree add -b".
BranchCreated ==
    \/ Succeeded("branch")
    \/ \E i \in 1..Len(ops) :
          ops[i].cmd = "worktree_add" /\ ops[i].arg # "branch" /\ ops[i].ok
\* The run stashed changes and then ended at a failing "git branch" or "git
\* worktree add".
FailedAfterStash ==
    /\ pc = "exit"
    /\ stashed
    /\ ops # <<>>
    /\ LastOp.cmd \in {"branch", "worktree_add"}
    /\ ~LastOp.ok
\* What the collision check of a second run of the same command line finds.
RerunCollision == CollisionError(wtExists, newBranchExists)

\* C28 as claimed: a run that fails at branch creation or worktree add after
\* its stash push exits 1 with its entry on top of the stash and the source
\* working tree without the stashed changes; and after every non-zero exit
\* that follows the creation of the branch (a failing worktree add, or a Linker
\* abort with its cleanup) the branch exists and a second run stops at the
\* branch-name check.
C28_AbortStopsRerunAtBranchCheck ==
    /\ FailedAfterStash =>
          /\ exit_code = 1
          /\ stashList = <<RunEntry>> \o atStart.stashList
          /\ srcTree = atStart.srcTree \ RunEntry.changes
          /\ RunEntry.changes # {}
    /\ (/\ pc = "exit" /\ exit_code # 0 /\ BranchCreated
        /\ \/ LastOp.cmd = "worktree_add" /\ ~LastOp.ok
           \/ Issued("worktree_remove")) =>
          /\ newBranchExists
          /\ RerunCollision = "Branch already exists"

\* C28, amended: the same for every non-zero exit that follows the creation of
\* the branch, except that the second run stops at the worktree-path check when
\* the new worktree is still there (the cleanup's removal failed, or the run
\* failed after the symlink block or by an exception that is no SystemExit),
\* and at the branch-name check when it is gone.
C28_AbortLeavesBranchAndStash ==
    /\ FailedAfterStash =>
          /\ exit_code = 1
          /\ stashList = <<RunEntry>> \o atStart.stashList
          /\ srcTree = atStart.srcTree \ RunEntry.changes
          /\ RunEntry.changes # {}
    /\ (pc = "exit" /\ exit_code # 0 /\ BranchCreated) =>
          /\ newBranchExists
          /\ RerunCollision = IF wtExists THEN "Worktree already exists"
                              ELSE "Branch already exists"
          /\ (Issued("worktree_remove") /\ LastOp.ok) => ~wtExists
          /\ (LastOp.cmd = "worktree_add" /\ ~LastOp.ok) => ~wtExists

C28_Witness ==
    /\ FailedAfterStash
    /\ LastOp.cmd = "worktree_add"
    /\ Succeeded("branch")
    /\ newBranchExists
    /\ ~wtExists

\* C29: the branch checked out in the invoking directory changes only in the
\* docimp script, for a local source branch in no worktree, by a git checkout
\* that is the first git command of the run and so comes before the collision
\* checks; the run does not get to those checks without it and git pull, and
\* the switch stays when the run then exits 1 on a collision.  In every other
\* run the invoking directory stays on its branch.
C29_CheckoutSwitchesInvokingDirectory ==
    /\ Succeeded("checkout") =>
          /\ script = "docimp" /\ branch_type = "local" /\ ~srcCheckedOut
          /\ ops[1] = Op("checkout", source_branch, TRUE)
          /\ cwdBranch = source_branch
    /\ ~Succeeded("checkout") => cwdBranch = "main"
    /\ (/\ script = "docimp" /\ branch_type = "local" /\ ~srcCheckedOut
        /\ PastResolver
        /\ pc \notin {"checkout", "pull", "exit"}) =>
          /\ Succeeded("checkout")
          /\ Succeeded("pull")
    /\ (/\ script = "docimp" /\ branch_type = "local" /\ ~srcCheckedOut
        /\ errors \cap {"Worktree already exists", "Branch already exists"} # {}) =>
          /\ pc = "exit" /\ exit_code = 1
          /\ cwdBranch = source_branch

C29_Witness ==
    /\ script = "docimp"
    /\ pc = "exit"
    /\ exit_code = 1
    /\ "Branch already exists" \in errors
    /\ Succeeded("pull")
    /\ cwdBranch = "feature"
    /\ Len(ops) = 2

\* The source worktree's only uncommitted changes are untracked files, and the
\* status query reported them.
OnlyUntracked ==
    /\ atStart.srcTree # {}
    /\ atStart.srcTree \subseteq UntrackedFiles
    /\ changes_info.uncommitted

====
